---------------------------- MODULE Spec2Model ----------------------------
(***************************************************************************)
(* The xoshiro "++" generators of src/PRNG.hh (GL0::PRNG), src/X128PP.hh   *)
(* (X128PP) and src/X256PP.hh (X256PP): the generator call, jump and       *)
(* long_jump, the seed expander and the std::random_device import.         *)
(*                                                                         *)
(* A value of the host integer type result_type is modelled as the set of  *)
(* the positions of its 1 bits (bit 0 the least significant).  TLC's own   *)
(* integers are 32-bit signed and cannot hold a lane.                      *)
(***************************************************************************)
EXTENDS Integers, Sequences, FiniteSets, TLC

(***************************************************************************)
(* The host integer type.  result_type is std::uint_fast32_t (PRNG,        *)
(* X128PP) or std::uint_fast64_t (X256PP); on the LP64 hosts modelled here *)
(* both are 64 bits wide, so the 32-bit generators run on a type twice as  *)
(* wide as their lanes.                                                    *)
(***************************************************************************)
HostBits == 64

Classes == {"PRNG", "X128PP", "X256PP"}

\* The lane width W of each class: the digits of result_max.
LaneBits(c) == IF c = "X256PP" THEN 64 ELSE 32

\* Literals: 16-bit groups, most significant first (\h is TLA+'s hexadecimal).
BitsOf16(n) == {i \in 0..15 : (n \div (2^i)) % 2 = 1}
Hex64(a, b, c, d) ==
    LET g == <<d, c, b, a>>
    IN {i \in 0..63 : (i % 16) \in BitsOf16(g[(i \div 16) + 1])}
Hex32(a, b) == Hex64(0, 0, a, b)
Zero == {}

(***************************************************************************)
(* C++ unsigned arithmetic on result_type: everything wraps at 2^HostBits. *)
(***************************************************************************)
Xor(a, b) == (a \ b) \cup (b \ a)
Or(a, b) == a \cup b
And(a, b) == a \cap b
Shl(u, k) == {i + k : i \in u} \cap (0..(HostBits - 1))
Shr(u, k) == {i - k : i \in u} \cap (0..(HostBits - 1))

\* Base-256 digits of a word, least significant first, and back.
Bit(u, p) == IF p \in u THEN 1 ELSE 0
Byte(u, k) ==
    Bit(u, 8 * k) + 2 * Bit(u, 8 * k + 1) + 4 * Bit(u, 8 * k + 2)
        + 8 * Bit(u, 8 * k + 3) + 16 * Bit(u, 8 * k + 4) + 32 * Bit(u, 8 * k + 5)
        + 64 * Bit(u, 8 * k + 6) + 128 * Bit(u, 8 * k + 7)
Bytes(u) == <<Byte(u, 0), Byte(u, 1), Byte(u, 2), Byte(u, 3),
              Byte(u, 4), Byte(u, 5), Byte(u, 6), Byte(u, 7)>>
FromBytes(d) ==
    {i \in 0..(HostBits - 1) : (d[(i \div 8) + 1] \div (2^(i % 8))) % 2 = 1}

\* Carry propagation: the base-256 digits of the number whose digit-k column
\* sums are t[k], cut at the top digit (arithmetic modulo 2^HostBits).
RECURSIVE Carry(_, _, _)
Carry(t, k, cin) ==
    IF k > Len(t) THEN <<>>
    ELSE <<(t[k] + cin) % 256>> \o Carry(t, k + 1, (t[k] + cin) \div 256)

\* a + b on result_type
AddBytes(x, y) ==
    Carry(<<x[1] + y[1], x[2] + y[2], x[3] + y[3], x[4] + y[4],
            x[5] + y[5], x[6] + y[6], x[7] + y[7], x[8] + y[8]>>, 1, 0)
Add(a, b) == FromBytes(AddBytes(Bytes(a), Bytes(b)))

\* The digit-k column of the schoolbook product: sum of x[i] * y[k + 1 - i].
RECURSIVE Column(_, _, _, _)
Column(x, y, k, i) ==
    IF i > k THEN 0 ELSE x[i] * y[k + 1 - i] + Column(x, y, k, i + 1)

\* a * b on result_type
MulBytes(x, y) ==
    Carry(<<Column(x, y, 1, 1), Column(x, y, 2, 1), Column(x, y, 3, 1),
            Column(x, y, 4, 1), Column(x, y, 5, 1), Column(x, y, 6, 1),
            Column(x, y, 7, 1), Column(x, y, 8, 1)>>, 1, 0)
Mul(a, b) == FromBytes(MulBytes(Bytes(a), Bytes(b)))

(***************************************************************************)
(* The capability contract values and the helpers of the three classes.    *)
(***************************************************************************)
result_max32 == Hex32(\hffff, \hffff)
result_max64 == Hex64(\hffff, \hffff, \hffff, \hffff)
result_max(c) == IF c = "X256PP" THEN result_max64 ELSE result_max32
min(c) == Zero
max(c) == result_max(c)

clamp(c, u) == And(u, result_max(c))

\* PRNG::rol without the clamp of the rotated value
PRNG_rol_wide(u, k) ==
    LET v == clamp("PRNG", u)
    IN Or(Shl(v, k % 32), Shr(v, (-k) % 32))

\* PRNG::rol: (k & 31) and ((- k) & 31) on an int k
PRNG_rol(u, k) ==
    LET v == clamp("PRNG", u)
    IN clamp("PRNG", Or(Shl(v, k % 32), Shr(v, (-k) % 32)))

\* X128PP::rotl
X128PP_rotl(u, k) ==
    Or(clamp("X128PP", Shl(u, k)), Shr(clamp("X128PP", u), (-k) % 32))

\* X256PP::rol
X256PP_rol(u, k) ==
    LET v == clamp("X256PP", u)
        kk == k % 64
    IN IF kk # 0 THEN clamp("X256PP", Or(Shl(v, kk), Shr(v, 64 - kk))) ELSE v

rotate(c, u, k) ==
    CASE c = "PRNG" -> PRNG_rol(u, k)
      [] c = "X128PP" -> X128PP_rotl(u, k)
      [] c = "X256PP" -> X256PP_rol(u, k)

\* The rotation and shift amounts written in the three operator() bodies.
OutRot(c) == IF c = "X256PP" THEN 23 ELSE 7
LaneShift(c) == IF c = "X256PP" THEN 17 ELSE 9
LaneRot(c) == IF c = "X256PP" THEN 45 ELSE 11

(***************************************************************************)
(* operator(): lanes are state[0..3] in the source, s[1..4] here.          *)
(***************************************************************************)
\* OutputWord returning r as computed, without the final clamp
OutputWord_unclamped(c, s) ==
    Add(rotate(c, Add(s[1], s[4]), OutRot(c)), s[1])

\* auto r = rol(state[0] + state[3], R1) + state[0]; ... return clamp(r);
OutputWord(c, s) ==
    LET r == Add(rotate(c, Add(s[1], s[4]), OutRot(c)), s[1])
    IN clamp(c, r)

\* NextLanes with t taken from lane 1 after lane 1 was updated
NextLanes_late_t(c, s) ==
    LET s2a == Xor(s[3], s[1])
        s3a == Xor(s[4], s[2])
        s1a == Xor(s[2], s2a)
        s0a == Xor(s[1], s3a)
        t == clamp(c, Shl(s1a, LaneShift(c)))
        s2b == Xor(s2a, t)
        s3b == rotate(c, s3a, LaneRot(c))
    IN <<s0a, s1a, s2b, s3b>>

\* the lane updates between the computation of r and the return
NextLanes(c, s) ==
    LET t == clamp(c, Shl(s[2], LaneShift(c)))
        s2a == Xor(s[3], s[1])
        s3a == Xor(s[4], s[2])
        s1a == Xor(s[2], s2a)
        s0a == Xor(s[1], s3a)
        s2b == Xor(s2a, t)
        s3b == rotate(c, s3a, LaneRot(c))
    IN <<s0a, s1a, s2b, s3b>>

call(c, s) == [out |-> OutputWord(c, s), state |-> NextLanes(c, s)]

(***************************************************************************)
(* jump and long_jump.  The loop variables (state, jbuf, b) and a count of *)
(* the operator() invocations made are carried in one record.              *)
(***************************************************************************)
jump_jtab32 ==
    <<Hex32(\h8764, \h000b), Hex32(\hf542, \hd2d3),
      Hex32(\h6fa0, \h35c3), Hex32(\h77f2, \hdb5b)>>
jump_jtab64 ==
    <<Hex64(\h180e, \hc6d3, \h3cfd, \h0aba), Hex64(\hd5a6, \h1266, \hf0c9, \h392c),
      Hex64(\ha958, \h2618, \he03f, \hc9aa), Hex64(\h39ab, \hdc45, \h29b1, \h661c)>>
jump_jtab(c) == IF c = "X256PP" THEN jump_jtab64 ELSE jump_jtab32

long_jump_jtab32 ==
    <<Hex32(\hb523, \h952e), Hex32(\h0b6f, \h099f),
      Hex32(\hccf5, \ha0ef), Hex32(\h1c58, \h0662)>>
long_jump_jtab64 ==
    <<Hex64(\h76e1, \h5d3e, \hfefd, \hcbbf), Hex64(\hc500, \h4e44, \h1c52, \h2fb3),
      Hex64(\h7771, \h0069, \h854e, \he241), Hex64(\h3910, \h9bb0, \h2acb, \he635)>>
long_jump_jtab(c) == IF c = "X256PP" THEN long_jump_jtab64 ELSE long_jump_jtab32

\* j & (1 << b): nonzero exactly when bit b of j is set
JBit(j, b) == And(Shl({0}, b), j) # Zero

\* the accumulation lost: jbuf is left as it was
XorLanes_lost(jbuf, s) == jbuf

\* the accumulation with |= in place of ^=
XorLanes_or(jbuf, s) ==
    <<Or(jbuf[1], s[1]), Or(jbuf[2], s[2]), Or(jbuf[3], s[3]), Or(jbuf[4], s[4])>>

\* for (i ...) jbuf[i] ^= state[i];
XorLanes(jbuf, s) ==
    <<Xor(jbuf[1], s[1]), Xor(jbuf[2], s[2]), Xor(jbuf[3], s[3]), Xor(jbuf[4], s[4])>>

\* the bit loop advancing the state before the bit is tested, not after
RECURSIVE bitloop_advance_first(_, _, _)
bitloop_advance_first(c, j, f) ==
    IF f.b >= LaneBits(c) THEN f
    ELSE bitloop_advance_first(c, j,
            [state |-> NextLanes(c, f.state),
             jbuf |-> IF JBit(j, f.b) THEN XorLanes(f.jbuf, NextLanes(c, f.state))
                      ELSE f.jbuf,
             b |-> f.b + 1,
             calls |-> f.calls + 1])

\* for (int b = 0; b < W; operator () (), b++) { if (j & (1 << b)) ... }
RECURSIVE bitloop(_, _, _)
bitloop(c, j, f) ==
    IF f.b >= LaneBits(c) THEN f
    ELSE bitloop(c, j,
            [state |-> NextLanes(c, f.state),
             jbuf |-> IF JBit(j, f.b) THEN XorLanes(f.jbuf, f.state) ELSE f.jbuf,
             b |-> f.b + 1,
             calls |-> f.calls + 1])

\* for (auto j : jtab) { ... }
RECURSIVE wordloop(_, _, _, _)
wordloop(c, jtab, k, f) ==
    IF k > Len(jtab) THEN f
    ELSE wordloop(c, jtab, k + 1, bitloop(c, jtab[k], [f EXCEPT !.b = 0]))

\* decltype(state) jbuf {}; the loops; state = jbuf;
jump_with(c, s, jtab) ==
    LET f == wordloop(c, jtab, 1,
                 [state |-> s, jbuf |-> <<Zero, Zero, Zero, Zero>>, b |-> 0, calls |-> 0])
    IN [state |-> f.jbuf, calls |-> f.calls]

jump(c, s) == jump_with(c, s, jump_jtab(c))
long_jump(c, s) == jump_with(c, s, long_jump_jtab(c))

(***************************************************************************)
(* The seed expander: mix and seed (X256PP names its seed function init).  *)
(***************************************************************************)
\* The multipliers of triple32 and of Mix13.
triple32_m1 == Hex32(\hed5a, \hd4bb)
triple32_m2 == Hex32(\hac4c, \h1b51)
triple32_m3 == Hex32(\h3184, \h8bab)
mix13_m1 == Hex64(\hbf58, \h476d, \h1ce4, \he5b9)
mix13_m2 == Hex64(\h94d0, \h49bb, \h1331, \h11eb)

\* u ^= u >> k
XorShr(u, k) == Xor(u, Shr(u, k))

\* u ^= u >> k; u = clamp(u * m);
MulRound(c, u, k, m) == clamp(c, Mul(XorShr(u, k), m))

\* triple32
PRNG_mix(u) ==
    XorShr(MulRound("PRNG",
             MulRound("PRNG",
               MulRound("PRNG", clamp("PRNG", u), 17, triple32_m1),
               11, triple32_m2),
             15, triple32_m3), 14)

\* triple32inc: u = clamp((u + 1)); then the triple32 rounds
X128PP_mix(u) ==
    XorShr(MulRound("X128PP",
             MulRound("X128PP",
               MulRound("X128PP", clamp("X128PP", Add(u, {0})), 17, triple32_m1),
               11, triple32_m2),
             15, triple32_m3), 14)

\* Stafford's Mix13 variant
X256PP_mix(u) ==
    XorShr(MulRound("X256PP",
             MulRound("X256PP", clamp("X256PP", u), 30, mix13_m1),
             27, mix13_m2), 31)

mix(c, u) ==
    CASE c = "PRNG" -> PRNG_mix(u)
      [] c = "X128PP" -> X128PP_mix(u)
      [] c = "X256PP" -> X256PP_mix(u)

\* The splitmix increment: UINT32_C(0x9e3779b9), UINT64_C(0x9e3779b97f4a7c15).
Golden32 == Hex32(\h9e37, \h79b9)
Golden64 == Hex64(\h9e37, \h79b9, \h7f4a, \h7c15)
Golden(c) == IF c = "X256PP" THEN Golden64 ELSE Golden32

\* s = clamp(s + 0x9e3779b9) (PRNG, X128PP); seed += 0x9e3779b97f4a7c15 (X256PP)
SeedStep(c, s) ==
    IF c = "X256PP" THEN Add(s, Golden(c)) ELSE clamp(c, Add(s, Golden(c)))

\* seed that XORs the four mix values into the lanes it finds
seed_into_lanes(c, st, s) ==
    <<Xor(st[1], mix(c, SeedStep(c, s))),
      Xor(st[2], mix(c, SeedStep(c, SeedStep(c, s)))),
      Xor(st[3], mix(c, SeedStep(c, SeedStep(c, SeedStep(c, s))))),
      Xor(st[4], mix(c, SeedStep(c, SeedStep(c, SeedStep(c, SeedStep(c, s))))))>>

\* seed that passes the advanced s to mix without storing it back into s
seed_no_advance(c, st, s) ==
    <<mix(c, SeedStep(c, s)), mix(c, SeedStep(c, s)),
      mix(c, SeedStep(c, s)), mix(c, SeedStep(c, s))>>

\* for (auto & si : state) si = mix(s = <s advanced>);  st: the lanes before
seed(c, st, s) ==
    LET a1 == SeedStep(c, s)
        a2 == SeedStep(c, a1)
        a3 == SeedStep(c, a2)
        a4 == SeedStep(c, a3)
    IN <<mix(c, a1), mix(c, a2), mix(c, a3), mix(c, a4)>>

(***************************************************************************)
(* The import from a std::random_device.  digits is                        *)
(* numeric_limits<decltype(rdev())>::digits; draws are the values rdev()   *)
(* returns, in order, converted to result_type.                            *)
(***************************************************************************)
\* 0xffff
Low16 == Hex32(0, \hffff)

\* the two draws in the other order: (lo << 16) | (hi & 0xffff)
Concat16_swapped(lo, hi) == Or(Shl(lo, 16), And(hi, Low16))

\* (hi << 16) | (lo & 0xffff)
Concat16(lo, hi) == Or(Shl(hi, 16), And(lo, Low16))

PRNG_init(digits, draws) ==
    IF digits < 32
    THEN <<clamp("PRNG", Concat16(draws[1], draws[2])),
           clamp("PRNG", Concat16(draws[3], draws[4])),
           clamp("PRNG", Concat16(draws[5], draws[6])),
           clamp("PRNG", Concat16(draws[7], draws[8]))>>
    ELSE <<clamp("PRNG", draws[1]), clamp("PRNG", draws[2]),
           clamp("PRNG", draws[3]), clamp("PRNG", draws[4])>>

X128PP_init(digits, draws) ==
    IF digits < 32
    THEN <<X128PP_mix(Concat16(draws[1], draws[2])),
           X128PP_mix(Concat16(draws[3], draws[4])),
           X128PP_mix(Concat16(draws[5], draws[6])),
           X128PP_mix(Concat16(draws[7], draws[8]))>>
    ELSE <<X128PP_mix(draws[1]), X128PP_mix(draws[2]),
           X128PP_mix(draws[3]), X128PP_mix(draws[4])>>

\* uniform_int_distribution<result_type> d {0, max()}; ri = d(rdev): the four
\* values the distribution returns are the draws here.
X256PP_init(digits, draws) == <<draws[1], draws[2], draws[3], draws[4]>>

init(c, digits, draws) ==
    CASE c = "PRNG" -> PRNG_init(digits, draws)
      [] c = "X128PP" -> X128PP_init(digits, draws)
      [] c = "X256PP" -> X256PP_init(digits, draws)

(***************************************************************************)
(* Bounds and inputs.                                                      *)
(***************************************************************************)
\* the operations (calls, jumps and long_jumps) applied to one generator
\* since it was last (re)initialized
MaxOps == 2

\* Seeds: 0 (the default argument), 1, a value above 2^32 - 1, all ones, and
\* the seeds whose first or fourth splitmix value is the mix's preimage of 0.
Seeds(c) ==
    {Zero, {0}, Hex64(\h1234, \h5678, \h90ab, \hcdef), Hex64(\hffff, \hffff, \hffff, \hffff)}
    \cup CASE c = "PRNG" -> {Hex32(\h61c8, \h8647), Hex32(\h8722, \h191c)}
           [] c = "X128PP" -> {Hex32(\h61c8, \h8646), Hex32(\h8722, \h191b)}
           [] c = "X256PP" -> {Hex64(\h61c8, \h8646, \h80b5, \h83eb),
                               Hex64(\h8722, \h191a, \h02d6, \h0fac)}

\* What a std::random_device can return: eight draws below 2^digits.  digits
\* (the width of unsigned int) is implementation-defined.
Draws16 ==
    {<<Zero, Zero, Zero, Zero, Zero, Zero, Zero, Zero>>,
     <<Hex32(0, \hffff), Hex32(0, \hffff), Hex32(0, \hffff), Hex32(0, \hffff),
       Hex32(0, \hffff), Hex32(0, \hffff), Hex32(0, \hffff), Hex32(0, \hffff)>>,
     <<Hex32(0, \h1234), Hex32(0, \h5678), Hex32(0, \h9abc), Hex32(0, \hdef0),
       Hex32(0, \h0001), Hex32(0, \h8000), Hex32(0, \hffff), Zero>>}
Draws24 ==
    {<<Hex32(\h00ab, \h1234), Hex32(\h00cd, \h5678), Hex32(\h00ff, \hffff), Hex32(\h0080, \h0001),
       Hex32(\h0001, \h0000), Hex32(\h0010, \h0000), Zero, Hex32(\h00ff, \h0000)>>}
Draws32 ==
    {<<Zero, Zero, Zero, Zero, Zero, Zero, Zero, Zero>>,
     <<Hex32(\hffff, \hffff), Hex32(\hffff, \hffff), Hex32(\hffff, \hffff), Hex32(\hffff, \hffff),
       Hex32(\hffff, \hffff), Hex32(\hffff, \hffff), Hex32(\hffff, \hffff), Hex32(\hffff, \hffff)>>,
     <<Hex32(\hdead, \hbeef), {0}, Hex32(\h8000, \h0000), Hex32(\hcafe, \hf00d),
       Zero, Zero, Zero, Zero>>}
\* X256PP: the four values its uniform_int_distribution over [0, max()] returns
Dist64 ==
    {<<Zero, Zero, Zero, Zero>>,
     <<{0}, Zero, Zero, Zero>>,
     <<Hex64(\hffff, \hffff, \hffff, \hffff), Hex64(\h8000, 0, 0, 0),
       Hex64(\h0123, \h4567, \h89ab, \hcdef), {63, 0}>>}

DeviceInputs(c) ==
    IF c = "X256PP" THEN {[digits |-> 32, draws |-> d] : d \in Dist64}
    ELSE {[digits |-> 16, draws |-> d] : d \in Draws16}
         \cup {[digits |-> 24, draws |-> d] : d \in Draws24}
         \cup {[digits |-> 32, draws |-> d] : d \in Draws32}

(***************************************************************************)
(* The state: generators of one class, each with its four lanes, and for   *)
(* each what was done to it since it was last (re)initialized.             *)
(*   origin  how it was (re)initialized: by seed s, or from draws          *)
(*   start   the lanes right after that                                    *)
(*   path    the calls and jumps applied since                             *)
(*   op, pre the last operation, and the lanes before it (after it, when   *)
(*           it was a (re)initialization, which reads no lane)             *)
(*   out     the word the last operator() returned                         *)
(*   outs    the words returned since origin                               *)
(*   calls   the operator() invocations the last operation made            *)
(***************************************************************************)
VARIABLES cls, state, hist

vars == <<cls, state, hist>>

Gens == DOMAIN state

Initialized(o, op, lanes) ==
    [origin |-> o, start |-> lanes, path |-> <<>>, op |-> op, pre |-> lanes,
     out |-> Zero, outs |-> <<>>, calls |-> 0]

\* constexpr PRNG (result_type s = 0) : state {} { seed(s); }
Constructed(c, s) == seed(c, <<Zero, Zero, Zero, Zero>>, s)
ConstructedHist(s, lanes) == Initialized([kind |-> "seed", s |-> s], "ctor", lanes)

\* One generator, constructed with any of the seeds.
Init ==
    /\ cls \in Classes
    /\ \E s \in Seeds(cls) :
         /\ state = <<Constructed(cls, s)>>
         /\ hist = <<ConstructedHist(s, state[1])>>

\* generator g after operator () returned r
Returned(g, r) ==
    /\ state' = [state EXCEPT ![g] = r.state]
    /\ hist' = [hist EXCEPT ![g] =
           [@ EXCEPT !.path = Append(@, "call"), !.op = "call",
                     !.pre = state[g], !.out = r.out,
                     !.outs = Append(@, r.out), !.calls = 1]]

\* result_type operator () ()
Call(g) ==
    /\ Len(hist[g].path) < MaxOps
    /\ Returned(g, call(cls, state[g]))
    /\ UNCHANGED cls

\* generator g after the jump or long_jump op left r
Landed(g, op, r) ==
    /\ state' = [state EXCEPT ![g] = r.state]
    /\ hist' = [hist EXCEPT ![g] =
           [@ EXCEPT !.path = Append(@, op), !.op = op,
                     !.pre = state[g], !.out = Zero, !.calls = r.calls]]

\* void jump ()
Jump(g) ==
    /\ Len(hist[g].path) < MaxOps
    /\ Landed(g, "jump", jump(cls, state[g]))
    /\ UNCHANGED cls

\* void long_jump ()
LongJump(g) ==
    /\ Len(hist[g].path) < MaxOps
    /\ Landed(g, "long_jump", long_jump(cls, state[g]))
    /\ UNCHANGED cls

\* generator g after seed or init left its lanes as given
Reinitialized(g, o, op, lanes) ==
    /\ state' = [state EXCEPT ![g] = lanes]
    /\ hist' = [hist EXCEPT ![g] = Initialized(o, op, lanes)]

\* void seed (result_type s)   (X256PP: void init (result_type seed))
Seed(g, s) ==
    /\ Reinitialized(g, [kind |-> "seed", s |-> s], "seed", seed(cls, state[g], s))
    /\ UNCHANGED cls

\* void init (std::random_device &)
InitDevice(g, in) ==
    /\ Reinitialized(g, [kind |-> "init", digits |-> in.digits, draws |-> in.draws],
                     "init", init(cls, in.digits, in.draws))
    /\ UNCHANGED cls

Next ==
    \/ \E g \in Gens : Call(g)
    \/ \E g \in Gens : Jump(g)
    \/ \E g \in Gens : LongJump(g)
    \/ \E g \in Gens : \E s \in Seeds(cls) : Seed(g, s)
    \/ \E g \in Gens : \E in \in DeviceInputs(cls) : InitDevice(g, in)

Spec == Init /\ [][Next]_vars

(***************************************************************************)
(* Two generators of one class, side by side: each is constructed with a   *)
(* seed and is then called, jumped, reseeded and re-imported on its own.   *)
(***************************************************************************)
\* calls and jumps applied to the two generators together since each was
\* last (re)initialized
MaxPairOps == 2

PairSeeds(c) == {Zero, Hex64(\h1234, \h5678, \h90ab, \hcdef)}

PairInputs(c) ==
    IF c = "X256PP"
    THEN {[digits |-> 32, draws |-> d] : d \in {e \in Dist64 : e[4] = {63, 0}}}
    ELSE {[digits |-> 16, draws |-> d] : d \in {e \in Draws16 : e[1] = Hex32(0, \h1234)}}

PairOps == Len(hist[1].path) + Len(hist[2].path)

InitPair ==
    /\ cls \in Classes
    /\ \E s1 \in PairSeeds(cls), s2 \in PairSeeds(cls) :
         /\ state = <<Constructed(cls, s1), Constructed(cls, s2)>>
         /\ hist = <<ConstructedHist(s1, state[1]), ConstructedHist(s2, state[2])>>

NextPair ==
    \/ \E g \in Gens : PairOps < MaxPairOps /\ Call(g)
    \/ \E g \in Gens : PairOps < MaxPairOps /\ Jump(g)
    \/ \E g \in Gens : PairOps < MaxPairOps /\ LongJump(g)
    \/ \E g \in Gens : \E s \in PairSeeds(cls) : Seed(g, s)
    \/ \E g \in Gens : \E in \in PairInputs(cls) : InitDevice(g, in)

SpecPair == InitPair /\ [][NextPair]_vars

(***************************************************************************)
(* The arithmetic the claims are stated in, on sets of bit positions of    *)
(* any size: a value is below 2^w when all its positions are below w.      *)
(***************************************************************************)
Below(u, w) == \A i \in u : i < w
AllBelow(s, w) == \A i \in DOMAIN s : Below(s[i], w)
ModPow2(u, w) == {i \in u : i < w}
RefXor(a, b) == {i \in a \cup b : ~(i \in a /\ i \in b)}

\* a + b, exactly: the carries are added until none is left
RECURSIVE RefSum(_, _)
RefSum(a, b) ==
    IF b = {} THEN {i \in a : TRUE}
    ELSE RefSum(RefXor(a, b), {i + 1 : i \in {j \in a : j \in b}})

\* rotl_W of a value below 2^w
RefRotl(u, k, w) == {(i + k) % w : i \in u}

\* u <= v as numbers
RefLeq(u, v) == u = v \/ \E i \in v : i \notin u /\ \A j \in u : j > i => j \in v

\* W, and (R1, S, R2), as the claims give them
RefW(c) == IF c \in {"PRNG", "X128PP"} THEN 32 ELSE 64
RefR1(c) == IF c \in {"PRNG", "X128PP"} THEN 7 ELSE 23
RefS(c) == IF c \in {"PRNG", "X128PP"} THEN 9 ELSE 17
RefR2(c) == IF c \in {"PRNG", "X128PP"} THEN 11 ELSE 45

\* (rotl_W((lane0 + lane3) mod 2^W, R1) + lane0) mod 2^W
RefOut(c, s) ==
    ModPow2(RefSum(RefRotl(ModPow2(RefSum(s[1], s[4]), RefW(c)), RefR1(c), RefW(c)),
                   s[1]), RefW(c))

\* the xoshiro recurrence
RefStep(c, s) ==
    LET t == ModPow2({i + RefS(c) : i \in s[2]}, RefW(c))
        l2 == RefXor(s[3], s[1])
        l3 == RefXor(s[4], s[2])
        l1 == RefXor(s[2], l2)
        l0 == RefXor(s[1], l3)
    IN <<l0, l1, RefXor(l2, t), RefRotl(l3, RefR2(c), RefW(c))>>

(***************************************************************************)
(* C1.  One generator call on lanes below 2^W returns                      *)
(* (rotl_W((lane0 + lane3) mod 2^W, R1) + lane0) mod 2^W of the lanes      *)
(* before the call and replaces the lanes by the xoshiro recurrence, with  *)
(* (R1, S, R2) = (7, 9, 11) for PRNG and X128PP and (23, 17, 45) for       *)
(* X256PP.                                                                 *)
(***************************************************************************)
C1_CallIsXoshiroPlusPlus ==
    \A g \in Gens :
        (hist[g].op = "call" /\ AllBelow(hist[g].pre, RefW(cls)))
        => /\ hist[g].out = RefOut(cls, hist[g].pre)
           /\ state[g] = RefStep(cls, hist[g].pre)

\* a call was made on lanes whose sum lane0 + lane3 carries out of W bits
C1_Witness ==
    \E g \in Gens :
        /\ hist[g].op = "call"
        /\ AllBelow(hist[g].pre, RefW(cls))
        /\ RefW(cls) \in RefSum(hist[g].pre[1], hist[g].pre[4])
        /\ hist[g].out # Zero

(***************************************************************************)
(* C6.  Every value a generator call returns lies in [min(), max()] =      *)
(* [0, 2^W - 1], also on a host result_type wider than W bits.             *)
(***************************************************************************)
C6_OutputInRange ==
    \A g \in Gens :
        hist[g].op = "call"
        => /\ RefLeq(min(cls), hist[g].out)
           /\ RefLeq(hist[g].out, max(cls))
           /\ Below(hist[g].out, RefW(cls))

\* a 32-bit generator on the 64-bit host returned a word although the sum
\* rol(lane0 + lane3) + lane0 reached 2^32
C6_Witness ==
    \E g \in Gens :
        /\ hist[g].op = "call"
        /\ RefW(cls) < HostBits
        /\ RefW(cls) \in RefSum(RefRotl(ModPow2(RefSum(hist[g].pre[1], hist[g].pre[4]),
                                                RefW(cls)), RefR1(cls), RefW(cls)),
                                 hist[g].pre[1])

(***************************************************************************)
(* C10.  On a host result_type wider than 32 bits every lane of PRNG and   *)
(* of X128PP is below 2^32 in every state reached from construction,       *)
(* seed(s) with any s, or init from any entropy words, followed by calls,  *)
(* jump and long_jump.                                                     *)
(***************************************************************************)
C10_LanesBelow32 ==
    (cls \in {"PRNG", "X128PP"} /\ HostBits > 32)
    => \A g \in Gens : AllBelow(state[g], 32)

\* a 32-bit generator seeded with a value above 2^32 - 1 was called and jumped
C10_Witness ==
    \E g \in Gens :
        /\ cls \in {"PRNG", "X128PP"}
        /\ HostBits > 32
        /\ hist[g].origin.kind = "seed"
        /\ ~Below(hist[g].origin.s, 32)
        /\ \E i \in DOMAIN hist[g].path : hist[g].path[i] = "call"
        /\ \E i \in DOMAIN hist[g].path : hist[g].path[i] \in {"jump", "long_jump"}

(***************************************************************************)
(* C3.  After any initialization (construction, seed, or init from an      *)
(* entropy source that may return any words) and any calls, jumps and      *)
(* long_jumps, the four lanes are never all zero.                          *)
(***************************************************************************)
C3_NeverAllZero ==
    \A g \in Gens : state[g] # <<Zero, Zero, Zero, Zero>>

(***************************************************************************)
(* C4.  For every seed s the seed expander (seed, X256PP::init(seed), the  *)
(* seeding constructors) leaves four lanes that are not all zero, lane i   *)
(* (counted from 0) being mix((s + (i + 1) * C) mod 2^W) with              *)
(* C = 0x9e3779b9 (W = 32) or 0x9e3779b97f4a7c15 (W = 64).                 *)
(***************************************************************************)
RefC(c) ==
    IF c \in {"PRNG", "X128PP"} THEN Hex32(\h9e37, \h79b9)
    ELSE Hex64(\h9e37, \h79b9, \h7f4a, \h7c15)

\* n * a
RECURSIVE RefTimes(_, _)
RefTimes(n, a) == IF n = 0 THEN {} ELSE RefSum(RefTimes(n - 1, a), a)

RefSeedLane(c, s, i) == mix(c, ModPow2(RefSum(s, RefTimes(i + 1, RefC(c))), RefW(c)))

C4_SeedExpander ==
    \A g \in Gens :
        hist[g].origin.kind = "seed"
        => /\ hist[g].start # <<Zero, Zero, Zero, Zero>>
           /\ \A i \in 0..3 :
                 hist[g].start[i + 1] = RefSeedLane(cls, hist[g].origin.s, i)

\* seed(s) was called with a seed that makes one of the four lanes zero
C4_Witness ==
    \E g \in Gens :
        /\ hist[g].op = "seed"
        /\ state[g] = hist[g].start
        /\ \E i \in 1..4 : state[g][i] = Zero

(***************************************************************************)
(* C7.  As stated: when the entropy source's word is narrower than the     *)
(* 32-bit lane, init(source) sets each lane of PRNG and of X128PP to the   *)
(* concatenation of two consecutive draws (low 16 bits: the first draw     *)
(* masked to 16 bits; above: the second draw shifted left by 16; masked to *)
(* 32 bits), eight draws for four lanes; otherwise each lane is one draw   *)
(* masked to 32 bits.                                                      *)
(***************************************************************************)
RefConcat(lo, hi) == {i \in 0..31 : IF i < 16 THEN i \in lo ELSE (i - 16) \in hi}

RefImport(digits, draws) ==
    IF digits < 32
    THEN <<RefConcat(draws[1], draws[2]), RefConcat(draws[3], draws[4]),
           RefConcat(draws[5], draws[6]), RefConcat(draws[7], draws[8])>>
    ELSE <<ModPow2(draws[1], 32), ModPow2(draws[2], 32),
           ModPow2(draws[3], 32), ModPow2(draws[4], 32)>>

Imported(g) == RefImport(hist[g].origin.digits, hist[g].origin.draws)

C7_LanesAreTheDraws ==
    \A g \in Gens :
        (cls \in {"PRNG", "X128PP"} /\ hist[g].op = "init")
        => state[g] = Imported(g)

(***************************************************************************)
(* C7, amended.  PRNG::init sets each lane to that concatenation (draws    *)
(* 0x1234 then 0x5678 give lane 0x56781234), or to the one draw masked to  *)
(* 32 bits; X128PP::init sets each lane to mix of that value.              *)
(***************************************************************************)
C7_Amended ==
    \A g \in Gens :
        hist[g].op = "init"
        => /\ cls = "PRNG" => state[g] = Imported(g)
           /\ cls = "X128PP"
                => \A i \in 1..4 : state[g][i] = X128PP_mix(Imported(g)[i])
           /\ (/\ cls = "PRNG"
               /\ hist[g].origin.digits < 32
               /\ hist[g].origin.draws[1] = Hex32(0, \h1234)
               /\ hist[g].origin.draws[2] = Hex32(0, \h5678))
                => state[g][1] = Hex32(\h5678, \h1234)

\* X128PP imported the draws 0x1234, 0x5678 from a 16-bit source, and its
\* first lane is not 0x56781234
C7_Witness ==
    \E g \in Gens :
        /\ cls = "X128PP"
        /\ hist[g].op = "init"
        /\ hist[g].origin.digits < 32
        /\ hist[g].origin.draws[1] = Hex32(0, \h1234)
        /\ hist[g].origin.draws[2] = Hex32(0, \h5678)
        /\ state[g][1] # Hex32(\h5678, \h1234)

(***************************************************************************)
(* C2.  jump and long_jump commute with the generator call: jump (or       *)
(* long_jump) and then N calls leaves the state that N calls and then jump *)
(* (or long_jump) leaves, for every N >= 0.                                *)
(***************************************************************************)
\* the lanes after n calls
RECURSIVE Calls(_, _, _)
Calls(c, s, n) == IF n = 0 THEN s ELSE Calls(c, call(c, s).state, n - 1)

Jumped(c, op, s) == IF op = "jump" THEN jump(c, s).state ELSE long_jump(c, s).state

\* the path is one jump or long_jump followed by calls only
JumpThenCalls(path) ==
    /\ Len(path) >= 1
    /\ path[1] \in {"jump", "long_jump"}
    /\ \A i \in 2..Len(path) : path[i] = "call"

C2_JumpCommutesWithCalls ==
    \A g \in Gens :
        JumpThenCalls(hist[g].path)
        => state[g] = Jumped(cls, hist[g].path[1],
                             Calls(cls, hist[g].start, Len(hist[g].path) - 1))

\* a jump followed by a call
C2_Witness ==
    \E g \in Gens :
        /\ hist[g].path = <<"jump", "call">>
        /\ state[g] # hist[g].start

(***************************************************************************)
(* C9.  jump and long_jump compute the bit-gated accumulation: the 4 table *)
(* words in array order, each from bit 0 to bit W - 1; at scan index       *)
(* n = W * k + b the entry state advanced by n calls is XORed lane-wise    *)
(* into a zero-initialized accumulator iff bit b of word k is set; after   *)
(* exactly 4 * W internal calls the accumulator becomes the state.         *)
(***************************************************************************)
\* the n states s, s advanced by one call, ..., by n - 1 calls
RECURSIVE RefTraj(_, _, _)
RefTraj(c, s, n) ==
    IF n = 0 THEN <<>> ELSE <<s>> \o RefTraj(c, call(c, s).state, n - 1)

\* the 4 * W states the scan meets: index n (from 0) is at position n + 1
RefScan(c, s) ==
    LET w == RefW(c)
        t1 == RefTraj(c, s, w)
        t2 == RefTraj(c, call(c, t1[w]).state, w)
        t3 == RefTraj(c, call(c, t2[w]).state, w)
        t4 == RefTraj(c, call(c, t3[w]).state, w)
    IN t1 \o t2 \o t3 \o t4

\* the scan indices whose table bit is set
RefGated(c, jtab) ==
    {n \in 0..(4 * RefW(c) - 1) : (n % RefW(c)) \in jtab[(n \div RefW(c)) + 1]}

\* XOR of lane i of the states at the indices in ns: a bit is set iff it is
\* set in an odd number of them
RefXorAll(scan, ns, i) ==
    {p \in 0..(HostBits - 1) : Cardinality({n \in ns : p \in scan[n + 1][i]}) % 2 = 1}

RefAccumulate(c, s, jtab) ==
    LET scan == RefScan(c, s)
        ns == RefGated(c, jtab)
    IN <<RefXorAll(scan, ns, 1), RefXorAll(scan, ns, 2),
         RefXorAll(scan, ns, 3), RefXorAll(scan, ns, 4)>>

C9_JumpIsGatedAccumulation ==
    \A g \in Gens :
        hist[g].op \in {"jump", "long_jump"}
        => /\ state[g] = RefAccumulate(cls, hist[g].pre,
                             IF hist[g].op = "jump" THEN jump_jtab(cls)
                             ELSE long_jump_jtab(cls))
           /\ hist[g].calls = 4 * RefW(cls)

\* a jump was made after a call, and the state it left is neither the entry
\* state nor the entry state advanced by 4 * W calls
C9_Witness ==
    \E g \in Gens :
        /\ hist[g].op = "jump"
        /\ hist[g].path = <<"call", "jump">>
        /\ state[g] # hist[g].pre
        /\ hist[g].calls = 4 * RefW(cls)

(***************************************************************************)
(* C5.  jump and long_jump are injective: from two distinct states (lanes  *)
(* below 2^W) jump leaves two distinct states, and so does long_jump.      *)
(***************************************************************************)
C5_JumpInjective ==
    \A g \in Gens, h \in Gens :
        (/\ hist[g].op \in {"jump", "long_jump"}
         /\ hist[h].op = hist[g].op
         /\ AllBelow(hist[g].pre, RefW(cls))
         /\ AllBelow(hist[h].pre, RefW(cls))
         /\ hist[g].pre # hist[h].pre)
        => state[g] # state[h]

\* the two generators, in distinct states, both made a long_jump
C5_Witness ==
    /\ hist[1].op = "long_jump"
    /\ hist[2].op = "long_jump"
    /\ hist[1].pre # hist[2].pre
    /\ AllBelow(hist[1].pre, RefW(cls))
    /\ AllBelow(hist[2].pre, RefW(cls))

(***************************************************************************)
(* C8.  Seeding is deterministic: two generators of one class that were    *)
(* (re)initialized with the same seed s, whatever was done to each before, *)
(* hold identical states and return identical output sequences for any     *)
(* number of calls.                                                        *)
(***************************************************************************)
CallsOnly(path) == \A i \in DOMAIN path : path[i] = "call"

SameSeed(g, h) ==
    /\ hist[g].origin.kind = "seed"
    /\ hist[h].origin.kind = "seed"
    /\ hist[g].origin.s = hist[h].origin.s

C8_SeedingDeterministic ==
    \A g \in Gens, h \in Gens :
        SameSeed(g, h)
        => /\ hist[g].start = hist[h].start
           /\ (CallsOnly(hist[g].path) /\ CallsOnly(hist[h].path))
                => /\ \A i \in DOMAIN hist[g].outs \cap DOMAIN hist[h].outs :
                         hist[g].outs[i] = hist[h].outs[i]
                   /\ Len(hist[g].path) = Len(hist[h].path) => state[g] = state[h]

\* the two generators were seeded with the same seed, above 2^32 - 1, and
\* each has returned a word since
C8_Witness ==
    /\ SameSeed(1, 2)
    /\ ~Below(hist[1].origin.s, 32)
    /\ CallsOnly(hist[1].path)
    /\ CallsOnly(hist[2].path)
    /\ Len(hist[1].outs) >= 1
    /\ Len(hist[2].outs) >= 1
    /\ state[1] = state[2]

=============================================================================
